---------------------------- MODULE Spec2Model ----------------------------
(***************************************************************************)
(* The Canny-style edge pipeline of libs/EdgeDetection.py: full-mode       *)
(* two-kernel convolution (apply_kernel, sobel_edge), NonMaximumSuppression,*)
(* DoubleThreshold and the in-place, single raster pass Hysteresis.        *)
(*                                                                         *)
(* Representation.                                                         *)
(*  - A grid is a function [0..M-1 -> [0..N-1 -> Int]], indexed like the   *)
(*    numpy arrays of the source (row, then column, from 0).               *)
(*  - Integer images are convolved with integer kernels, so the two edge   *)
(*    components are integers.  The magnitude sqrt(h^2 + v^2) is kept as   *)
(*    its square h^2 + v^2: magnitudes are non-negative, so every          *)
(*    comparison the pipeline makes between magnitudes is the comparison   *)
(*    of their squares, and a ratio r applied to a magnitude is r^2        *)
(*    applied to its square.                                               *)
(*  - An angle in radians is kept in units of pi/16 (11.25 degrees), an    *)
(*    angle in degrees in quarter degrees, so that the thresholds k*PI/8   *)
(*    (22.5 degree steps, PI = 180) of NonMaximumSuppression are integers. *)
(*  - A ratio is a pair <<numerator, denominator>>.                        *)
(***************************************************************************)
EXTENDS Integers, FiniteSets, Sequences, TLC

VARIABLES pc, arg, GradientMagnitude, GradientDirection, Image, i, j, ret

vars == <<pc, arg, GradientMagnitude, GradientDirection, Image, i, j, ret>>

\* A variable that holds nothing yet.
None == <<>>

-----------------------------------------------------------------------------
(* Grids *)

Rows(g) == Cardinality(DOMAIN g)
Cols(g) == Cardinality(DOMAIN g[0])
Pixels(g) == (0 .. Rows(g) - 1) \X (0 .. Cols(g) - 1)
At(g, p) == g[p[1]][p[2]]

\* np.zeros(shape)
Zeros(M, N) == [r \in 0 .. M - 1 |-> [c \in 0 .. N - 1 |-> 0]]

\* The pixels both loops of the pipeline visit: range(1, M - 1) x range(1, N - 1).
Interior(g) == (1 .. Rows(g) - 2) \X (1 .. Cols(g) - 2)
Border(g) == Pixels(g) \ Interior(g)

Adjacent(p, q) ==
    /\ p # q
    /\ p[1] - q[1] \in {-1, 0, 1}
    /\ p[2] - q[2] \in {-1, 0, 1}

\* Row-major (raster) order of two pixels.
Before(p, q) == p[1] < q[1] \/ (p[1] = q[1] /\ p[2] < q[2])

-----------------------------------------------------------------------------
(* Hysteresis: one row-major pass that reads and writes the same grid *)

Weak == 70
Strong == 255

\* The condition of the inner if: one of the 8 neighbours equals Strong.
HasStrongNeighbour(img, r, c, strong) ==
    \/ img[r + 1][c - 1] = strong
    \/ img[r + 1][c] = strong
    \/ img[r + 1][c + 1] = strong
    \/ img[r][c - 1] = strong
    \/ img[r][c + 1] = strong
    \/ img[r - 1][c - 1] = strong
    \/ img[r - 1][c] = strong
    \/ img[r - 1][c + 1] = strong

\* Mutant: a Weak neighbour links as well as a Strong one.
HysteresisBodyLinksWeak(img, r, c, weak, strong) ==
    IF img[r][c] = weak
    THEN IF HasStrongNeighbour(img, r, c, strong) \/ HasStrongNeighbour(img, r, c, weak)
         THEN [img EXCEPT ![r][c] = strong]
         ELSE [img EXCEPT ![r][c] = 0]
    ELSE img

\* Mutant: the neighbours are read from the grid as it was passed in, not
\* from the grid being written.
HysteresisBodyReadsInput(img, r, c, weak, strong) ==
    IF img[r][c] = weak
    THEN IF HasStrongNeighbour(arg.Image, r, c, strong)
         THEN [img EXCEPT ![r][c] = strong]
         ELSE [img EXCEPT ![r][c] = 0]
    ELSE img

\* Mutant: the else branch hangs on the outer if, and clears every pixel
\* that is not Weak.
HysteresisBodyDanglingElse(img, r, c, weak, strong) ==
    IF img[r][c] = weak
    THEN IF HasStrongNeighbour(img, r, c, strong)
         THEN [img EXCEPT ![r][c] = strong]
         ELSE img
    ELSE [img EXCEPT ![r][c] = 0]

\* Mutant: a Weak pixel without a Strong neighbour is left as it is.
HysteresisBodyNoElse(img, r, c, weak, strong) ==
    IF img[r][c] = weak
    THEN IF HasStrongNeighbour(img, r, c, strong)
         THEN [img EXCEPT ![r][c] = strong]
         ELSE img
    ELSE img

\* The body of the two loops for the pixel (r, c).
HysteresisBody(img, r, c, weak, strong) ==
    IF img[r][c] = weak
    THEN IF HasStrongNeighbour(img, r, c, strong)
         THEN [img EXCEPT ![r][c] = strong]
         ELSE [img EXCEPT ![r][c] = 0]
    ELSE img

\* Hysteresis is entered with the grid g: the loops start at (1, 1), or are
\* empty when the grid has no interior.
HysteresisEnter(g) ==
    /\ Image' = g
    /\ i' = 1
    /\ j' = 1
    /\ pc' = IF Rows(g) - 1 > 1 /\ Cols(g) - 1 > 1 THEN "hysteresis" ELSE "return"

\* One iteration of the inner loop, and the step of the loops to the next pixel.
HysteresisVisit ==
    /\ pc = "hysteresis"
    /\ Image' = HysteresisBody(Image, i, j, Weak, Strong)
    /\ IF j + 1 < Cols(Image) - 1
       THEN /\ j' = j + 1
            /\ UNCHANGED <<i, pc>>
       ELSE IF i + 1 < Rows(Image) - 1
            THEN /\ i' = i + 1
                 /\ j' = 1
                 /\ UNCHANGED pc
            ELSE /\ pc' = "return"
                 /\ UNCHANGED <<i, j>>
    /\ UNCHANGED <<arg, GradientMagnitude, GradientDirection, ret>>

\* return Image
HysteresisReturn ==
    /\ pc = "return"
    /\ ret' = Image
    /\ pc' = "done"
    /\ UNCHANGED <<arg, GradientMagnitude, GradientDirection, Image, i, j>>

-----------------------------------------------------------------------------
(* apply_kernel and sobel_edge: full-mode convolution, magnitude, direction *)

\* A grid from its rows written as a tuple of tuples.
FromRows(s) == [r \in 0 .. Len(s) - 1 |-> [c \in 0 .. Len(s[1]) - 1 |-> s[r + 1][c + 1]]]

\* horizontal.T
Transpose(g) == [r \in 0 .. Cols(g) - 1 |-> [c \in 0 .. Rows(g) - 1 |-> g[c][r]]]

\* np.flip(g): both axes reversed.
Flip(g) ==
    [r \in 0 .. Rows(g) - 1 |-> [c \in 0 .. Cols(g) - 1 |->
        g[Rows(g) - 1 - r][Cols(g) - 1 - c]]]

\* The first n products of the convolution sum at output pixel (r, c); the
\* n-th pairs kernel entry (a, b) with image sample (r - a, c - b), and a
\* sample outside the image contributes 0 (zero fill).
RECURSIVE ConvSum(_, _, _, _, _)
ConvSum(img, k, r, c, n) ==
    IF n = 0
    THEN 0
    ELSE LET a == (n - 1) \div Cols(k)
             b == (n - 1) % Cols(k)
             inside == /\ r - a \in 0 .. Rows(img) - 1
                       /\ c - b \in 0 .. Cols(img) - 1
         IN  ConvSum(img, k, r, c, n - 1)
               + (IF inside THEN img[r - a][c - b] * k[a][b] ELSE 0)

\* scipy.signal.convolve2d(img, k) with its defaults: mode 'full', zero fill.
\* The output has (M + Kh - 1) x (N + Kw - 1) pixels.
Convolve2d(img, k) ==
    [r \in 0 .. Rows(img) + Rows(k) - 2 |-> [c \in 0 .. Cols(img) + Cols(k) - 2 |->
        ConvSum(img, k, r, c, Rows(k) * Cols(k))]]

\* The image is single-channel already (len(image.shape) = 2), so gray = image.
\* mag holds the squares of np.sqrt(h^2 + v^2).
ApplyKernel(image, horizontal_kernel, vertical_kernel) ==
    LET horizontal_edge == Convolve2d(image, horizontal_kernel)
        vertical_edge == Convolve2d(image, vertical_kernel)
    IN  [mag |-> [r \in DOMAIN horizontal_edge |-> [c \in DOMAIN horizontal_edge[r] |->
                    horizontal_edge[r][c] * horizontal_edge[r][c]
                      + vertical_edge[r][c] * vertical_edge[r][c]]],
         horizontal_edge |-> horizontal_edge,
         vertical_edge |-> vertical_edge]

\* np.arctan2(y, x) of two integers, in units of pi/16.  The multiples of
\* pi/4 are exact.  Any other angle is strictly between two neighbouring
\* multiples of pi/8 (tan(pi/8) = sqrt(2) - 1 is irrational), and is given as
\* the odd unit between them: its order against every k * pi/8 is kept.
\* For 0 < a < b: atan(a / b) < pi/8 iff (a + b)^2 < 2 b^2; for 0 < b < a:
\* atan(a / b) < 3 pi/8 iff (a - b)^2 < 2 b^2.
Arctan2(y, x) ==
    LET a == IF y < 0 THEN -y ELSE y
        b == IF x < 0 THEN -x ELSE x
        t == IF a = 0 THEN 0
             ELSE IF b = 0 THEN 8
             ELSE IF a = b THEN 4
             ELSE IF a < b THEN (IF (a + b) * (a + b) < 2 * b * b THEN 1 ELSE 3)
             ELSE (IF (a - b) * (a - b) < 2 * b * b THEN 5 ELSE 7)
    IN  IF x = 0 /\ y = 0 THEN 0
        ELSE IF y >= 0
             THEN (IF x >= 0 THEN t ELSE 16 - t)
             ELSE (IF x >= 0 THEN -t ELSE t - 16)

\* Mutant: the last coefficient is mistyped, and the rows no longer sum to 0.
SobelHorizontalTypo == FromRows(<< <<-1, 0, 1>>, <<-2, 0, 2>>, <<-1, 0, 2>> >>)

\* horizontal = np.array([[-1, 0, 1], [-2, 0, 2], [-1, 0, 1]])
SobelHorizontal == FromRows(<< <<-1, 0, 1>>, <<-2, 0, 2>>, <<-1, 0, 1>> >>)

\* vertical = np.flip(horizontal.T)
SobelVertical == Flip(Transpose(SobelHorizontal))

\* sobel_edge(image, True): the magnitude (squared) and the direction.
SobelEdge(image) ==
    LET e == ApplyKernel(image, SobelHorizontal, SobelVertical)
    IN  [mag |-> e.mag,
         Direction |-> [r \in DOMAIN e.mag |-> [c \in DOMAIN e.mag[r] |->
                          Arctan2(e.vertical_edge[r][c], e.horizontal_edge[r][c])]]]

-----------------------------------------------------------------------------
(* NonMaximumSuppression *)

\* Degrees are kept in quarter degrees.
Deg(d) == 4 * d

\* np.rad2deg of an angle given in units of pi/16: 11.25 degrees a unit.
Rad2Deg(u) == u * 45

PI == 180

\* The pair <<before_pixel, after_pixel>> the if/elif chain picks for the
\* pixel (row, col), whose direction (shifted by 180 degrees) is direction.
ComparedPixels(mag, direction, row, col) ==
    IF \/ 0 <= direction /\ direction < Deg(PI) \div 8
       \/ (15 * Deg(PI)) \div 8 <= direction /\ direction <= 2 * Deg(PI)
    THEN <<mag[row][col - 1], mag[row][col + 1]>>
    ELSE IF \/ Deg(PI) \div 8 <= direction /\ direction < (3 * Deg(PI)) \div 8
            \/ (9 * Deg(PI)) \div 8 <= direction /\ direction < (11 * Deg(PI)) \div 8
    THEN <<mag[row + 1][col - 1], mag[row - 1][col + 1]>>
    ELSE IF \/ (3 * Deg(PI)) \div 8 <= direction /\ direction < (5 * Deg(PI)) \div 8
            \/ (11 * Deg(PI)) \div 8 <= direction /\ direction < (13 * Deg(PI)) \div 8
    THEN <<mag[row - 1][col], mag[row + 1][col]>>
    ELSE <<mag[row - 1][col - 1], mag[row + 1][col + 1]>>

\* Mutant: the result starts as a copy of the magnitude, not as zeros.
NonMaximumSuppressionFromCopy(Magnitude, Direction) ==
    LET Degrees == [r \in DOMAIN Direction |-> [c \in DOMAIN Direction[r] |->
                      Rad2Deg(Direction[r][c]) + Deg(180)]]
    IN  [row \in DOMAIN Magnitude |-> [col \in DOMAIN Magnitude[row] |->
            IF <<row, col>> \in Interior(Magnitude)
            THEN LET pair == ComparedPixels(Magnitude, Degrees[row][col], row, col)
                 IN  IF Magnitude[row][col] >= pair[1] /\ Magnitude[row][col] >= pair[2]
                     THEN Magnitude[row][col]
                     ELSE 0
            ELSE Magnitude[row][col]]]

\* SuppressedImage starts as zeros; the loops write the interior pixels that
\* are >= both compared pixels.  No index of the loops leaves the grid, so the
\* except branch is never taken.
NonMaximumSuppression(Magnitude, Direction) ==
    LET Degrees == [r \in DOMAIN Direction |-> [c \in DOMAIN Direction[r] |->
                      Rad2Deg(Direction[r][c]) + Deg(180)]]
    IN  [row \in DOMAIN Magnitude |-> [col \in DOMAIN Magnitude[row] |->
            IF <<row, col>> \in Interior(Magnitude)
            THEN LET pair == ComparedPixels(Magnitude, Degrees[row][col], row, col)
                 IN  IF Magnitude[row][col] >= pair[1] /\ Magnitude[row][col] >= pair[2]
                     THEN Magnitude[row][col]
                     ELSE 0
            ELSE 0]]

-----------------------------------------------------------------------------
(* DoubleThreshold *)

\* Image.max()
RECURSIVE MaxOver(_, _)
MaxOver(g, ps) ==
    IF ps = {}
    THEN 0
    ELSE LET p == CHOOSE q \in ps : TRUE
             m == MaxOver(g, ps \ {p})
         IN  IF ps = {p} \/ At(g, p) > m THEN At(g, p) ELSE m

GridMax(g) == MaxOver(g, Pixels(g))

\* x >= m * ratio and x <= m * ratio, for a ratio <<n, d>> with d > 0.
AtLeast(x, m, ratio) == x * ratio[2] >= m * ratio[1]
AtMost(x, m, ratio) == x * ratio[2] <= m * ratio[1]

\* g[rows, cols] = v for the pixels ps
Assign(g, ps, v) ==
    [r \in DOMAIN g |-> [c \in DOMAIN g[r] |-> IF <<r, c>> \in ps THEN v ELSE g[r][c]]]

\* The Strong pixels are written first, the Weak pixels after them.
DoubleThreshold(Img, LowRatio, HighRatio, WeakValue) ==
    LET mx == GridMax(Img)
        StrongPixels == {p \in Pixels(Img) : AtLeast(At(Img, p), mx, HighRatio)}
        WeakPixels == {p \in Pixels(Img) :
                          /\ AtMost(At(Img, p), mx, HighRatio)
                          /\ AtLeast(At(Img, p), mx, LowRatio)}
    IN  Assign(Assign(Zeros(Rows(Img), Cols(Img)), StrongPixels, Strong),
               WeakPixels, WeakValue)

-----------------------------------------------------------------------------
(* The calls *)

\* NonMaximumSuppression(GradientMagnitude, GradientDirection), called alone.
NonMaximumSuppressionCall ==
    /\ pc = "nms"
    /\ ret' = NonMaximumSuppression(arg.GradientMagnitude, arg.GradientDirection)
    /\ pc' = "done"
    /\ UNCHANGED <<arg, GradientMagnitude, GradientDirection, Image, i, j>>

\* DoubleThreshold(Image, LowRatio, HighRatio, Weak), called alone.
DoubleThresholdCall ==
    /\ pc = "threshold"
    /\ ret' = DoubleThreshold(arg.Image, arg.LowRatio, arg.HighRatio, arg.Weak)
    /\ pc' = "done"
    /\ UNCHANGED <<arg, GradientMagnitude, GradientDirection, Image, i, j>>

\* The ratio of the squares.
SquareRatio(ratio) == <<ratio[1] * ratio[1], ratio[2] * ratio[2]>>

\* canny_edge: GradientMagnitude, GradientDirection = sobel_edge(image, True)
CannyGradient ==
    /\ pc = "canny_sobel"
    /\ LET e == SobelEdge(arg.Image)
       IN  /\ GradientMagnitude' = e.mag
           /\ GradientDirection' = e.Direction
    /\ pc' = "canny_nms"
    /\ UNCHANGED <<arg, Image, i, j, ret>>

\* canny_edge: SuppressedImage = NonMaximumSuppression(...)
CannySuppress ==
    /\ pc = "canny_nms"
    /\ Image' = NonMaximumSuppression(GradientMagnitude, GradientDirection)
    /\ pc' = "canny_threshold"
    /\ UNCHANGED <<arg, GradientMagnitude, GradientDirection, i, j, ret>>

\* canny_edge: ThresholdedImage = DoubleThreshold(SuppressedImage, 0.05, 0.09, 70),
\* which Hysteresis(ThresholdedImage, 70, 255) is then entered with.  The
\* suppressed grid holds squared magnitudes, so the ratios are squared.
CannyThreshold ==
    /\ pc = "canny_threshold"
    /\ HysteresisEnter(DoubleThreshold(Image, SquareRatio(<<5, 100>>),
                                       SquareRatio(<<9, 100>>), 70))
    /\ UNCHANGED <<arg, GradientMagnitude, GradientDirection, ret>>

-----------------------------------------------------------------------------
(* Inputs of the bounded checks *)

\* The grids of shape M x N with at most k non-zero pixels, each from vals.
RECURSIVE SparseGrids(_, _, _, _)
SparseGrids(M, N, k, vals) ==
    IF k = 0
    THEN {Zeros(M, N)}
    ELSE LET fewer == SparseGrids(M, N, k - 1, vals)
         IN  fewer \cup {[g EXCEPT ![r][c] = v] :
                            g \in fewer, r \in 0 .. M - 1, c \in 0 .. N - 1, v \in vals}

\* Hysteresis is called on classification grids of HystRows rows and HystCols
\* columns that hold at most 4 pixels that are Weak or Strong (a chain of 3
\* and its seed fit), the others being 0.
HystRows == 4
HystCols == 4

InitHyst ==
    /\ \E g \in SparseGrids(HystRows, HystCols, 3, {Weak, Strong}) :
         \E r \in 0 .. HystRows - 1, c \in 0 .. HystCols - 1, v \in {0, Weak, Strong} :
            arg = [Image |-> [g EXCEPT ![r][c] = v]]
    /\ Image = arg.Image
    /\ i = 1
    /\ j = 1
    /\ pc = "hysteresis"
    /\ GradientMagnitude = None
    /\ GradientDirection = None
    /\ ret = None

NextHyst == HysteresisVisit \/ HysteresisReturn

SpecHyst == InitHyst /\ [][NextHyst]_vars

\* NonMaximumSuppression is called on magnitude grids of NmsRows x NmsCols
\* pixels with at most 3 non-zero magnitudes (a pixel and the two it is
\* compared with) in 1 .. MaxMagnitude, and on direction grids that hold one
\* angle, any multiple of pi/16 in [-pi, pi], at every pixel.
NmsRows == 3
NmsCols == 3
MaxMagnitude == 2

InitNMS ==
    /\ \E g \in SparseGrids(NmsRows, NmsCols, 3, 1 .. MaxMagnitude), u \in -16 .. 16 :
         arg = [GradientMagnitude |-> g,
                GradientDirection |-> [r \in 0 .. NmsRows - 1 |-> [c \in 0 .. NmsCols - 1 |-> u]]]
    /\ pc = "nms"
    /\ GradientMagnitude = None
    /\ GradientDirection = None
    /\ Image = None
    /\ i = 0
    /\ j = 0
    /\ ret = None

NextNMS == NonMaximumSuppressionCall

SpecNMS == InitNMS /\ [][NextNMS]_vars

\* DoubleThreshold is called on every 2 x 2 grid of magnitudes in
\* 0 .. MaxMagnitude, with the ratios of canny_edge (0.05, 0.09) and with
\* (0.25, 0.5), which floating point represents exactly.
DTRatios == { << <<5, 100>>, <<9, 100>> >>, << <<1, 4>>, <<1, 2>> >> }

InitDT ==
    /\ \E g \in SparseGrids(2, 2, 4, 1 .. MaxMagnitude), ratios \in DTRatios :
         arg = [Image |-> g, LowRatio |-> ratios[1], HighRatio |-> ratios[2], Weak |-> Weak]
    /\ pc = "threshold"
    /\ GradientMagnitude = None
    /\ GradientDirection = None
    /\ Image = None
    /\ i = 0
    /\ j = 0
    /\ ret = None

NextDT == DoubleThresholdCall

SpecDT == InitDT /\ [][NextDT]_vars

\* The chain of canny_edge is run on the 4 x 4 images whose samples all equal
\* c, for c in -MaxLevel .. MaxLevel, and on the 5 x 5 images that are c > 0 on
\* the square of rows 1..3, columns 1..3 and 0 elsewhere.
MaxLevel == 3

Uniform(c) == [r \in 0 .. 3 |-> [q \in 0 .. 3 |-> c]]

BrightSquare(c) ==
    [r \in 0 .. 4 |-> [q \in 0 .. 4 |-> IF r \in 1 .. 3 /\ q \in 1 .. 3 THEN c ELSE 0]]

InitCanny ==
    /\ \/ \E c \in -MaxLevel .. MaxLevel : arg = [kind |-> "uniform", c |-> c, Image |-> Uniform(c)]
       \/ \E c \in 1 .. MaxLevel : arg = [kind |-> "square", c |-> c, Image |-> BrightSquare(c)]
    /\ pc = "canny_sobel"
    /\ GradientMagnitude = None
    /\ GradientDirection = None
    /\ Image = None
    /\ i = 0
    /\ j = 0
    /\ ret = None

NextCanny ==
    \/ CannyGradient
    \/ CannySuppress
    \/ CannyThreshold
    \/ HysteresisVisit
    \/ HysteresisReturn

SpecCanny == InitCanny /\ [][NextCanny]_vars

\* Every call of the model.
Init == InitHyst \/ InitNMS \/ InitDT \/ InitCanny

Next == NextHyst \/ NextNMS \/ NextDT \/ NextCanny

Spec == Init /\ [][Next]_vars

-----------------------------------------------------------------------------
(* Properties of DoubleThreshold (SpecDT) *)

\* C1: DoubleThreshold returns only 0, Weak and 255, and the pixels valued 255
\* are exactly those with Image[p] >= Image.max() * HighRatio; a pixel at the
\* high threshold exactly is Strong, not Weak.
C1_StrongIsAtOrAboveHigh ==
    pc = "done" =>
        /\ \A p \in Pixels(ret) : At(ret, p) \in {0, arg.Weak, Strong}
        /\ {p \in Pixels(ret) : At(ret, p) = Strong}
             = {p \in Pixels(arg.Image) :
                   AtLeast(At(arg.Image, p), GridMax(arg.Image), arg.HighRatio)}

-----------------------------------------------------------------------------
(* Properties of Hysteresis (SpecHyst) *)

WeakInterior(g) == {p \in Interior(g) : At(g, p) = Weak}
StrongPixels(g) == {p \in Pixels(g) : At(g, p) = Strong}

\* The pixel of ps that the raster scan visits first, and the one it visits last.
First(ps) == CHOOSE p \in ps : \A q \in ps \ {p} : Before(p, q)
Last(ps) == CHOOSE p \in ps : \A q \in ps \ {p} : Before(q, p)

\* The interior Weak pixels of g are a chain of 3 (consecutive in raster order
\* and adjacent), and g holds one Strong pixel, the seed.
ChainOfThree(g) ==
    /\ Cardinality(WeakInterior(g)) = 3
    /\ Cardinality(StrongPixels(g)) = 1
    /\ LET a == First(WeakInterior(g))
           c == Last(WeakInterior(g))
           b == CHOOSE p \in WeakInterior(g) : p # a /\ p # c
       IN  Adjacent(a, b) /\ Adjacent(b, c)

Seed(g) == CHOOSE s \in StrongPixels(g) : TRUE

\* The chain runs against raster order: the seed touches only the chain pixel
\* visited last.
AgainstRaster(g) ==
    /\ ChainOfThree(g)
    /\ \A p \in WeakInterior(g) : Adjacent(Seed(g), p) <=> p = Last(WeakInterior(g))

\* The chain runs in raster order: the seed touches only the chain pixel
\* visited first.
AlongRaster(g) ==
    /\ ChainOfThree(g)
    /\ \A p \in WeakInterior(g) : Adjacent(Seed(g), p) <=> p = First(WeakInterior(g))

\* C3 as stated: after Hysteresis every pixel that was Weak, at any position,
\* holds 0 or 255, so the returned grid holds only 0 and 255.
C3_OutputBinary ==
    pc = "done" => \A p \in Pixels(ret) : At(ret, p) \in {0, Strong}

\* C3 amended: every interior pixel holds 0 or 255 after Hysteresis; a Weak
\* pixel of the border stays Weak, so the returned grid holds only 0, Weak and
\* 255, with Weak exactly at the border pixels that were Weak in the input.
C3_InteriorWeakResolved ==
    pc = "done" =>
        /\ \A p \in Interior(ret) : At(ret, p) \in {0, Strong}
        /\ \A p \in Border(ret) : At(ret, p) \in {0, Weak, Strong}
        /\ \A p \in Pixels(ret) :
              At(ret, p) = Weak <=> (p \in Border(ret) /\ At(arg.Image, p) = Weak)

C3_Witness ==
    /\ pc = "done"
    /\ \E p \in Interior(ret) : At(arg.Image, p) = Weak
    /\ \E p \in Border(ret) : At(arg.Image, p) = Weak /\ At(ret, p) = Weak

\* C4: a chain of 3 Weak interior pixels against raster order is not promoted
\* in full by one call: the chain pixel next to the seed ends 255, the two
\* visited before it end 0.
C4_AgainstRasterChainBroken ==
    (pc = "done" /\ AgainstRaster(arg.Image)) =>
        \A p \in WeakInterior(arg.Image) :
            At(ret, p) = (IF p = Last(WeakInterior(arg.Image)) THEN Strong ELSE 0)

C4_Witness == pc = "done" /\ AgainstRaster(arg.Image)

\* C5: Hysteresis changes only interior pixels that were Weak in the input:
\* a border pixel and a pixel that was not Weak keep their value throughout
\* the pass, the grid returned is the grid written, and an input without a
\* Weak pixel is returned as it was.
C5_OnlyInteriorWeakChange ==
    /\ Rows(Image) = Rows(arg.Image) /\ Cols(Image) = Cols(arg.Image)
    /\ \A p \in Pixels(arg.Image) :
          (p \in Border(arg.Image) \/ At(arg.Image, p) # Weak) => At(Image, p) = At(arg.Image, p)
    /\ pc = "done" =>
          /\ ret = Image
          /\ (\A p \in Pixels(arg.Image) : At(arg.Image, p) # Weak) => ret = arg.Image

C5_Witness ==
    /\ pc = "done"
    /\ \E p \in Border(arg.Image) :
          /\ At(arg.Image, p) = Weak
          /\ \E q \in StrongPixels(arg.Image) : Adjacent(p, q)
    /\ \E p \in Interior(arg.Image) : At(arg.Image, p) = Strong

\* C10: the pass reads the grid it writes: a Weak interior pixel next to a
\* pixel that was Weak in the input, is visited earlier and was promoted, is
\* promoted too; so a chain of 3 Weak interior pixels that extends from the
\* seed in raster order is promoted in full by one call.
C10_PromotionVisibleInPass ==
    pc = "done" =>
        /\ \A p \in WeakInterior(arg.Image) :
              (\E q \in WeakInterior(arg.Image) :
                  Adjacent(p, q) /\ Before(q, p) /\ At(ret, q) = Strong)
              => At(ret, p) = Strong
        /\ AlongRaster(arg.Image) =>
              \A p \in WeakInterior(arg.Image) : At(ret, p) = Strong

C10_Witness == pc = "done" /\ AlongRaster(arg.Image)

-----------------------------------------------------------------------------
(* Properties of NonMaximumSuppression (SpecNMS) *)

\* C6: the output of NonMaximumSuppression is, at every pixel, 0 or the input
\* magnitude (hence <= the input), and is 0 on the first and last row and
\* column.
C6_SuppressedIsZeroOrInput ==
    pc = "done" =>
        /\ Rows(ret) = Rows(arg.GradientMagnitude)
        /\ Cols(ret) = Cols(arg.GradientMagnitude)
        /\ \A p \in Pixels(ret) :
              /\ At(ret, p) \in {0, At(arg.GradientMagnitude, p)}
              /\ At(ret, p) <= At(arg.GradientMagnitude, p)
        /\ \A p \in Border(ret) : At(ret, p) = 0

C6_Witness ==
    /\ pc = "done"
    /\ \E p \in Border(ret) : At(arg.GradientMagnitude, p) > 0
    /\ \E p \in Interior(ret) : At(arg.GradientMagnitude, p) > 0 /\ At(ret, p) = 0

\* The pair of neighbours C9 names for a shifted direction (in quarter
\* degrees): the 45 degree class centred on the nearest of 0, 45, ..., 360.
NearestOctant(direction) == ((direction + Deg(45) \div 2) \div Deg(45)) % 8

ClaimedPixels(mag, direction, row, col) ==
    LET k == NearestOctant(direction)
    IN  IF k \in {0, 4} THEN <<mag[row][col - 1], mag[row][col + 1]>>
        ELSE IF k \in {1, 5} THEN <<mag[row + 1][col - 1], mag[row - 1][col + 1]>>
        ELSE IF k \in {2, 6} THEN <<mag[row - 1][col], mag[row + 1][col]>>
        ELSE <<mag[row - 1][col - 1], mag[row + 1][col + 1]>>

\* A direction half way between two of the eight angles has no nearest one.
HasNearest(direction) == direction % Deg(45) # Deg(45) \div 2

\* C9: every interior pixel is compared with the pair of neighbours of the
\* class of its shifted direction (nearest 0, 180 or 360: east/west; 45 or
\* 225: (row+1, col-1) and (row-1, col+1); 90 or 270: north/south; 135 or 315:
\* (row-1, col-1) and (row+1, col+1)), and keeps its magnitude iff it is >=
\* both, else is 0.  Stated for the directions that have a nearest angle.
C9_ComparesAlongNearestOctant ==
    pc = "done" =>
        \A p \in Interior(ret) :
            LET mag == arg.GradientMagnitude
                direction == Rad2Deg(At(arg.GradientDirection, p)) + Deg(180)
                pair == ClaimedPixels(mag, direction, p[1], p[2])
            IN  HasNearest(direction) =>
                    At(ret, p) = (IF At(mag, p) >= pair[1] /\ At(mag, p) >= pair[2]
                                  THEN At(mag, p) ELSE 0)

-----------------------------------------------------------------------------
(* Properties of the chain (SpecCanny) *)

AllZero(g) == \A p \in Pixels(g) : At(g, p) = 0

\* C2: for an all-zero image the grid returned by the chain
\* NonMaximumSuppression, DoubleThreshold(0.05, 0.09, 70), Hysteresis(70, 255)
\* is 0 at every pixel, border included.
C2_ZeroImageAllBackground ==
    (pc = "done" /\ AllZero(arg.Image) /\ AllZero(GradientMagnitude)) => AllZero(ret)

\* The output pixels whose 3 x 3 kernel window lies inside a 4 x 4 image.
KernelInside == (2 .. 3) \X (2 .. 3)

\* C7 as stated: the Sobel magnitude of a 4 x 4 image of equal samples c is 0
\* at every pixel of the 6 x 6 full-mode output.
C7_UniformMagnitudeZero ==
    (pc # "canny_sobel" /\ arg.kind = "uniform") =>
        /\ Rows(GradientMagnitude) = 6 /\ Cols(GradientMagnitude) = 6
        /\ AllZero(GradientMagnitude)

\* C7 amended: the Sobel magnitude of a 4 x 4 image of equal samples c is a
\* 6 x 6 grid that is 0 exactly where the kernel lies wholly inside the image
\* (rows 2..3, columns 2..3) or c = 0; for c # 0 every other pixel, where the
\* kernel overhangs the zero fill, is non-zero.
C7_UniformZeroWhereKernelInside ==
    (pc # "canny_sobel" /\ arg.kind = "uniform") =>
        /\ Rows(GradientMagnitude) = 6 /\ Cols(GradientMagnitude) = 6
        /\ \A p \in Pixels(GradientMagnitude) :
              At(GradientMagnitude, p) = 0 <=> (arg.c = 0 \/ p \in KernelInside)

C7_Witness ==
    /\ pc = "canny_nms"
    /\ arg.kind = "uniform"
    /\ arg.c # 0
    /\ GradientMagnitude[0][0] # 0
    /\ GradientMagnitude[2][2] = 0

\* The outline, one pixel wide, of the rectangle of h x w pixels at (top, left).
Outline(top, left, h, w) ==
    {p \in (top .. top + h - 1) \X (left .. left + w - 1) :
        p[1] \in {top, top + h - 1} \/ p[2] \in {left, left + w - 1}}

\* C8: for the 5 x 5 image with a bright 3 x 3 square the chain returns a grid
\* whose Strong pixels are a closed ring one pixel wide (the outline of a
\* rectangle with a hole), every other pixel being 0.
C8_SquareGivesThinRing ==
    (pc = "done" /\ arg.kind = "square") =>
        /\ \A p \in Pixels(ret) : At(ret, p) \in {0, Strong}
        /\ \E top \in 0 .. Rows(ret) - 1, left \in 0 .. Cols(ret) - 1,
              h \in 3 .. Rows(ret), w \in 3 .. Cols(ret) :
                 StrongPixels(ret) = Outline(top, left, h, w)

=============================================================================
